---- MODULE Spec2Model ----
(***************************************************************************)
(* A model of tabled's table Builder (tabled/src/builder/table_builder.rs) *)
(* and of the Tabled record conversion (src/tabled.rs).                    *)
(*                                                                         *)
(* A cell is modelled by its text.  A Vec is a sequence; the code's        *)
(* 0-based index i is position i + 1 of the sequence.  An Option is a      *)
(* sequence of length 0 (None) or 1 (Some).  A panic ends the run: the     *)
(* builder is left as the unwinding finds it and no operation follows.     *)
(***************************************************************************)
EXTENDS Integers, Sequences, FiniteSets, TLC

\* ------------------------------------------------------------- bounds
\* The widest row, header or table the model builds.
MaxCols == 2
\* The largest number of data rows the model stores.
MaxRows == 2

\* ------------------------------------------------------------- inputs
\* The cell texts a caller supplies: the empty string and a non-empty one.
InText == {"", "a"}
\* The fill texts a caller passes to set_default_text.
FillText == {"x"}

RECURSIVE SeqsUpTo(_, _)
SeqsUpTo(S, n) ==
    IF n = 0 THEN {<<>>}
    ELSE LET shorter == SeqsUpTo(S, n - 1)
         IN  shorter \cup {Append(s, x) : s \in {t \in shorter : Len(t) = n - 1}, x \in S}

\* The rows and headers a caller supplies.
Records == SeqsUpTo(InText, MaxCols)
\* The columns a caller supplies: up to a header cell, a cell per row, and one more.
Columns == SeqsUpTo(InText, MaxRows + 1)

\* ------------------------------------------------------------- Option, Vec
None == <<>>
Some(x) == <<x>>
is_some(o) == Len(o) > 0
unwrap(o) == o[1]

Max(a, b) == IF a >= b THEN a ELSE b

\* Vec::remove(index), for index < len.
vec_remove(v, index) == SubSeq(v, 1, index) \o SubSeq(v, index + 2, Len(v))
\* Vec::insert(index, x), for index <= len.
vec_insert(v, index, x) == SubSeq(v, 1, index) \o <<x>> \o SubSeq(v, index + 1, Len(v))

\* ------------------------------------------------------------- Builder
\* #[derive(Default)]: empty Vec, None, 0, false, None.
Default ==
    [data |-> <<>>, columns |-> None, count_columns |-> 0,
     is_consistent |-> FALSE, empty_cell_text |-> None]

\* What an operation leaves: the builder and whether the call panicked.
Ok(b) == [b |-> b, panic |-> FALSE]
Panic(b) == [b |-> b, panic |-> TRUE]

create_row(row, size) == [i \in 1..Len(row) |-> row[i]]

append_vec(v, value, n) == v \o [i \in 1..n |-> value]

\* update_size that takes the size of the last row or header as the column count.
update_size_last(b, size) ==
    IF size = b.count_columns
    THEN b
    ELSE [b EXCEPT !.count_columns = size,
                   !.is_consistent = IF Len(b.data) # 0 \/ is_some(b.columns)
                                     THEN FALSE ELSE @]

update_size(b, size) ==
    IF size < b.count_columns
    THEN IF Len(b.data) # 0 THEN [b EXCEPT !.is_consistent = FALSE] ELSE b
    ELSE IF size > b.count_columns
    THEN LET b1 == [b EXCEPT !.count_columns = size]
         IN  IF Len(b.data) # 0 \/ is_some(b.columns)
             THEN [b1 EXCEPT !.is_consistent = FALSE]
             ELSE b1
    ELSE b

RECURSIVE MaxLen(_)
MaxLen(rows) ==
    IF Len(rows) = 0 THEN 0 ELSE Max(Len(Head(rows)), MaxLen(Tail(rows)))

get_size(b) ==
    LET max == IF is_some(b.columns) THEN Len(unwrap(b.columns)) ELSE 0
        max_records == MaxLen(b.data)
    IN  Max(max_records, max)

fit_row(row, count_columns, empty) ==
    IF count_columns > Len(row)
    THEN append_vec(row, empty, count_columns - Len(row))
    ELSE row

\* A fault for C2: the padding forgets the header.
fit_rows_length_skips_header(b) ==
    LET empty == IF is_some(b.empty_cell_text) THEN unwrap(b.empty_cell_text) ELSE ""
    IN  [b EXCEPT
            !.data = [i \in 1..Len(b.data) |-> fit_row(b.data[i], b.count_columns, empty)]]

fit_rows_length(b) ==
    LET empty == IF is_some(b.empty_cell_text) THEN unwrap(b.empty_cell_text) ELSE ""
    IN  [b EXCEPT
            !.columns = IF is_some(b.columns)
                        THEN Some(fit_row(unwrap(b.columns), b.count_columns, empty))
                        ELSE None,
            !.data = [i \in 1..Len(b.data) |-> fit_row(b.data[i], b.count_columns, empty)]]

set_header(b, columns) ==
    LET list == create_row(columns, b.count_columns)
    IN  [update_size(b, Len(list)) EXCEPT !.columns = Some(list)]

remove_header(b) ==
    LET b1 == [b EXCEPT !.columns = None]
    IN  [b1 EXCEPT !.count_columns = get_size(b1)]

\* set_default_text that pads the stored header and rows at once.
set_default_text_refit(b, text) ==
    fit_rows_length([b EXCEPT !.empty_cell_text = Some(text)])

set_default_text(b, text) == [b EXCEPT !.empty_cell_text = Some(text)]

push_record(b, row) ==
    LET list == create_row(row, b.count_columns)
    IN  [update_size(b, Len(list)) EXCEPT !.data = Append(@, list)]

\* A fault for C6: an index out of range is clamped to the end.
insert_record_clamped(b, index, record) ==
    LET list == create_row(record, b.count_columns)
        b1 == update_size(b, Len(list))
    IN  Ok([b1 EXCEPT !.data = vec_insert(@, IF index > Len(@) THEN Len(@) ELSE index, list)])

\* Vec::insert panics when index > len, after update_size has run.
insert_record(b, index, record) ==
    LET list == create_row(record, b.count_columns)
        b1 == update_size(b, Len(list))
    IN  IF index > Len(b1.data)
        THEN Panic(b1)
        ELSE Ok([b1 EXCEPT !.data = vec_insert(@, index, list)])

hint_column_size(b, size) ==
    [b EXCEPT !.count_columns = size, !.is_consistent = TRUE]

\* A fault for C8: the last row is removed, whatever the index.
remove_record_last(b, index) ==
    IF index >= Len(b.data)
    THEN Panic(b)
    ELSE Ok([b EXCEPT !.data = vec_remove(@, Len(@) - 1)])

\* Vec::remove panics when index >= len.
remove_record(b, index) ==
    IF index >= Len(b.data)
    THEN Panic(b)
    ELSE Ok([b EXCEPT !.data = vec_remove(@, index)])

\* clear that forgets the width of the header it keeps.
clear_to_zero(b) ==
    [b EXCEPT !.data = <<>>, !.is_consistent = TRUE, !.count_columns = 0]

clear(b) ==
    [b EXCEPT !.data = <<>>,
              !.is_consistent = TRUE,
              !.count_columns = IF is_some(b.columns) THEN Len(unwrap(b.columns)) ELSE 0]

\* The first row (1-based) that has no cell at index, or 0.
first_short(data, index) ==
    LET short == {i \in 1..Len(data) : index >= Len(data[i])}
    IN  IF short = {} THEN 0 ELSE CHOOSE i \in short : \A j \in short : i <= j

\* remove_column that leaves the header as it is.
remove_column_rows_only(b, index) ==
    LET k == first_short(b.data, index)
    IN  IF k # 0
        THEN Panic([b EXCEPT !.data = [i \in 1..Len(b.data) |->
                       IF i < k THEN vec_remove(b.data[i], index) ELSE b.data[i]]])
        ELSE Ok([b EXCEPT
                   !.data = [i \in 1..Len(b.data) |-> vec_remove(b.data[i], index)],
                   !.count_columns = @ - 1])

\* Vec::remove panics at the header or at the first row without a cell at
\* index; the rows before it have lost their cell by then.
remove_column(b, index) ==
    IF is_some(b.columns) /\ index >= Len(unwrap(b.columns))
    THEN Panic(b)
    ELSE LET b1 == IF is_some(b.columns)
                   THEN [b EXCEPT !.columns = Some(vec_remove(unwrap(b.columns), index))]
                   ELSE b
             k == first_short(b.data, index)
         IN  IF k # 0
             THEN Panic([b1 EXCEPT !.data = [i \in 1..Len(b.data) |->
                            IF i < k THEN vec_remove(b.data[i], index) ELSE b.data[i]]])
             ELSE Ok([b1 EXCEPT
                        !.data = [i \in 1..Len(b.data) |-> vec_remove(b.data[i], index)],
                        !.count_columns = @ - 1])

\* iter.map(into).chain(repeat(String::new())): the i-th text (1-based), or "".
cell_list(iter, i) == IF i <= Len(iter) THEN iter[i] ELSE ""

\* A fault for C9: a row left without a value gets the fill text.
push_column_fill(b, column) ==
    LET b0 == IF ~b.is_consistent THEN fit_rows_length(b) ELSE b
        empty == IF is_some(b.empty_cell_text) THEN unwrap(b.empty_cell_text) ELSE ""
        text == IF Len(column) > 0 THEN column[1] ELSE ""
        iter == IF is_some(b0.columns) /\ Len(column) > 0 THEN Tail(column) ELSE column
    IN  [b0 EXCEPT
            !.columns = IF is_some(b0.columns)
                        THEN Some(Append(unwrap(b0.columns), text))
                        ELSE None,
            !.data = [i \in 1..Len(b0.data) |->
                        Append(b0.data[i], IF i <= Len(iter) THEN iter[i] ELSE empty)],
            !.count_columns = @ + 1]

push_column(b, column) ==
    LET b0 == IF ~b.is_consistent THEN fit_rows_length(b) ELSE b
        text == IF Len(column) > 0 THEN column[1] ELSE ""
        iter == IF is_some(b0.columns) /\ Len(column) > 0 THEN Tail(column) ELSE column
    IN  [b0 EXCEPT
            !.columns = IF is_some(b0.columns)
                        THEN Some(Append(unwrap(b0.columns), text))
                        ELSE None,
            !.data = [i \in 1..Len(b0.data) |-> Append(b0.data[i], cell_list(iter, i))],
            !.count_columns = @ + 1]

\* The first row (1-based) into which index cannot be inserted, or 0.
first_too_short(data, index) ==
    LET short == {i \in 1..Len(data) : index > Len(data[i])}
    IN  IF short = {} THEN 0 ELSE CHOOSE i \in short : \A j \in short : i <= j

\* Vec::insert panics at the header or at the first row shorter than index.
insert_column(b, column, index) ==
    LET b0 == IF ~b.is_consistent THEN fit_rows_length(b) ELSE b
        text == IF Len(column) > 0 THEN column[1] ELSE ""
        iter == IF is_some(b0.columns) /\ Len(column) > 0 THEN Tail(column) ELSE column
    IN  IF is_some(b0.columns) /\ index > Len(unwrap(b0.columns))
        THEN Panic(b0)
        ELSE LET b1 == IF is_some(b0.columns)
                       THEN [b0 EXCEPT !.columns =
                                Some(vec_insert(unwrap(b0.columns), index, text))]
                       ELSE b0
                 k == first_too_short(b0.data, index)
             IN  IF k # 0
                 THEN Panic([b1 EXCEPT !.data = [i \in 1..Len(b0.data) |->
                                IF i < k
                                THEN vec_insert(b0.data[i], index, cell_list(iter, i))
                                ELSE b0.data[i]]])
                 ELSE Ok([b1 EXCEPT
                            !.data = [i \in 1..Len(b0.data) |->
                                vec_insert(b0.data[i], index, cell_list(iter, i))],
                            !.count_columns = @ + 1])

\* The scan of column col over the rows, top to bottom: it stops at the first
\* non-empty cell, and indexing a row without a cell at col panics.
column_scan(data, col) ==
    LET stop == {i \in 1..Len(data) : col >= Len(data[i]) \/ data[i][col + 1] # ""}
    IN  IF stop = {} THEN "empty"
        ELSE LET i == CHOOSE i \in stop : \A j \in stop : i <= j
             IN  IF col >= Len(data[i]) THEN "panic" ELSE "nonempty"

\* The body of `for col in 0..count_columns` from the nominal index n on.
RECURSIVE clean_columns_from(_, _, _, _, _)
clean_columns_from(data, head, count_columns, n, deleted) ==
    IF n >= count_columns
    THEN [data |-> data, head |-> head, deleted |-> deleted, panic |-> FALSE]
    ELSE LET col == n - deleted
             scan == column_scan(data, col)
         IN  IF scan = "panic"
             THEN [data |-> data, head |-> head, deleted |-> deleted, panic |-> TRUE]
             ELSE IF scan = "nonempty"
             THEN clean_columns_from(data, head, count_columns, n + 1, deleted)
             ELSE clean_columns_from(
                     [i \in 1..Len(data) |-> vec_remove(data[i], col)],
                     IF is_some(head) /\ Len(unwrap(head)) > col
                     THEN Some(vec_remove(unwrap(head), col))
                     ELSE head,
                     count_columns, n + 1, deleted + 1)

\* A fault for C3: the column index is not compensated for the columns
\* already deleted, and a column past the end of the rows is passed over.
RECURSIVE clean_columns_unshifted_from(_, _, _, _, _)
clean_columns_unshifted_from(data, head, count_columns, n, deleted) ==
    IF n >= count_columns - deleted
    THEN [data |-> data, head |-> head, deleted |-> deleted, panic |-> FALSE]
    ELSE LET scan == column_scan(data, n)
         IN  IF scan = "panic"
             THEN [data |-> data, head |-> head, deleted |-> deleted, panic |-> TRUE]
             ELSE IF scan = "nonempty"
             THEN clean_columns_unshifted_from(data, head, count_columns, n + 1, deleted)
             ELSE clean_columns_unshifted_from(
                     [i \in 1..Len(data) |-> vec_remove(data[i], n)],
                     IF is_some(head) /\ Len(unwrap(head)) > n
                     THEN Some(vec_remove(unwrap(head), n))
                     ELSE head,
                     count_columns, n + 1, deleted + 1)

clean_columns_unshifted(data, head, count_columns) ==
    clean_columns_unshifted_from(data, head, count_columns, 0, 0)

clean_columns(data, head, count_columns) ==
    clean_columns_from(data, head, count_columns, 0, 0)

\* The scan of a row over the columns 0..count_columns, left to right.
row_scan(row, count_columns) ==
    LET stop == {c \in 0..(count_columns - 1) : c >= Len(row) \/ row[c + 1] # ""}
    IN  IF stop = {} THEN "empty"
        ELSE LET c == CHOOSE c \in stop : \A d \in stop : c <= d
             IN  IF c >= Len(row) THEN "panic" ELSE "nonempty"

\* The body of `for row in 0..data.len()` from the nominal index n on; len is
\* data.len() at the loop's entry.
RECURSIVE clean_rows_from(_, _, _, _, _)
clean_rows_from(data, count_columns, len, n, deleted) ==
    IF n >= len
    THEN [data |-> data, panic |-> FALSE]
    ELSE LET row == n - deleted
             scan == row_scan(data[row + 1], count_columns)
         IN  IF scan = "panic"
             THEN [data |-> data, panic |-> TRUE]
             ELSE IF scan = "nonempty"
             THEN clean_rows_from(data, count_columns, len, n + 1, deleted)
             ELSE clean_rows_from(vec_remove(data, row), count_columns, len,
                                  n + 1, deleted + 1)

\* A fault for C5: the row index is not compensated for the rows already
\* deleted, so the row after a deleted one is passed over.
RECURSIVE clean_rows_unshifted_from(_, _, _)
clean_rows_unshifted_from(data, count_columns, n) ==
    IF n >= Len(data)
    THEN [data |-> data, panic |-> FALSE]
    ELSE LET scan == row_scan(data[n + 1], count_columns)
         IN  IF scan = "panic"
             THEN [data |-> data, panic |-> TRUE]
             ELSE IF scan = "nonempty"
             THEN clean_rows_unshifted_from(data, count_columns, n + 1)
             ELSE clean_rows_unshifted_from(vec_remove(data, n), count_columns, n + 1)

clean_rows_unshifted(data, count_columns) ==
    clean_rows_unshifted_from(data, count_columns, 0)

clean_rows(data, count_columns) ==
    clean_rows_from(data, count_columns, Len(data), 0, 0)

clean(b) ==
    LET cols == clean_columns(b.data, b.columns, b.count_columns)
        b1 == [b EXCEPT !.data = cols.data, !.columns = cols.head]
    IN  IF cols.panic
        THEN Panic(b1)
        ELSE LET b2 == [b1 EXCEPT !.count_columns = @ - cols.deleted]
                 rows == clean_rows(b2.data, b2.count_columns)
                 b3 == [b2 EXCEPT !.data = rows.data]
             IN  IF rows.panic THEN Panic(b3) ELSE Ok(b3)

\* From<Builder> for Vec<Vec<String>>: the exported grid.
into_grid(b) ==
    LET b0 == IF ~b.is_consistent THEN fit_rows_length(b) ELSE b
        data == IF is_some(b0.columns)
                THEN vec_insert(b0.data, 0, unwrap(b0.columns))
                ELSE b0.data
    IN  [r \in 1..Len(data) |-> [c \in 1..Len(data[r]) |-> data[r][c]]]

\* From<Vec<Vec<String>>> and From<Vec<Vec<CellInfo<String>>>> for Builder:
\* the rows as they are given, count_columns from the first of them.
from_vec(data) ==
    [data |-> [i \in 1..Len(data) |-> [c \in 1..Len(data[i]) |-> data[i][c]]],
     count_columns |-> IF Len(data) = 0 THEN 0 ELSE Len(data[1]),
     columns |-> None,
     is_consistent |-> FALSE,
     empty_cell_text |-> None]

\* FromIterator for Builder: the rows pushed one by one into a new builder.
RECURSIVE from_iter_into(_, _)
from_iter_into(b, iter) ==
    IF Len(iter) = 0 THEN b
    ELSE from_iter_into(push_record(b, Head(iter)), Tail(iter))
from_iter(iter) == from_iter_into(Default, iter)

\* The lists of rows a caller converts into a builder.
RowLists == SeqsUpTo(Records, MaxRows)

\* ------------------------------------------------------------- the Tabled conversion
\* The longest array among the values converted.
MaxN == 2
\* tuple_table! is invoked for tuples of 1 to 6 members.
TupleArity == 6

\* A value: a scalar of type ty (text s, truth value b, integer n or float
\* n.frac), an array of scalars of type ty, a tuple of values or a reference
\* to a value (items).
Text(ty, s) == [kind |-> "scalar", ty |-> ty, s |-> s, b |-> FALSE, n |-> 0, frac |-> 0, items |-> <<>>]
Bool(b) == [kind |-> "scalar", ty |-> "bool", s |-> "", b |-> b, n |-> 0, frac |-> 0, items |-> <<>>]
Integer(ty, n) == [kind |-> "scalar", ty |-> ty, s |-> "", b |-> FALSE, n |-> n, frac |-> 0, items |-> <<>>]
Float(ty, n, frac) == [kind |-> "scalar", ty |-> ty, s |-> "", b |-> FALSE, n |-> n, frac |-> frac, items |-> <<>>]
Array(ty, items) == [kind |-> "array", ty |-> ty, s |-> "", b |-> FALSE, n |-> 0, frac |-> 0, items |-> items]
Tuple(items) == [kind |-> "tuple", ty |-> "", s |-> "", b |-> FALSE, n |-> 0, frac |-> 0, items |-> items]
Ref(v) == [kind |-> "ref", ty |-> "", s |-> "", b |-> FALSE, n |-> 0, frac |-> 0, items |-> <<v>>]

\* A type: a scalar type by its name, [name; n], a tuple of its members'
\* types, or a reference to its one member.
Type(kind, name, n, members) == [kind |-> kind, name |-> name, n |-> n, members |-> members]

RECURSIVE TypeOf(_)
TypeOf(v) ==
    CASE v.kind = "scalar" -> Type("scalar", v.ty, 0, <<>>)
      [] v.kind = "array" -> Type("array", v.ty, Len(v.items), <<>>)
      [] OTHER -> Type(v.kind, "", 0, [i \in 1..Len(v.items) |-> TypeOf(v.items[i])])

TextTypes == {"&str", "String", "char"}
IntTypes == {"isize", "usize", "u8", "u16", "u32", "u64", "u128",
             "i8", "i16", "i32", "i64", "i128"}
FloatTypes == {"f32", "f64"}

Digit(d) ==
    CASE d = 0 -> "0" [] d = 1 -> "1" [] d = 2 -> "2" [] d = 3 -> "3" [] d = 4 -> "4"
      [] d = 5 -> "5" [] d = 6 -> "6" [] d = 7 -> "7" [] d = 8 -> "8" [] d = 9 -> "9"

\* The decimal digits of a natural number.
RECURSIVE Decimal(_)
Decimal(n) == IF n < 10 THEN Digit(n) ELSE Decimal(n \div 10) \o Digit(n % 10)

\* format!("{}", v) of a scalar.
Display(v) ==
    CASE v.ty \in TextTypes -> v.s
      [] v.ty = "bool" -> IF v.b THEN "true" ELSE "false"
      [] v.ty \in IntTypes -> IF v.n < 0 THEN "-" \o Decimal(0 - v.n) ELSE Decimal(v.n)
      [] v.ty \in FloatTypes ->
             Decimal(v.n) \o (IF v.frac = 0 THEN "" ELSE "." \o Digit(v.frac))

RECURSIVE LENGTH(_), tuple_LENGTH(_), headers(_), tuple_headers(_, _), fields(_), tuple_fields(_, _)

\* $($name::LENGTH+)+ 0
tuple_LENGTH(members) ==
    IF Len(members) = 0 THEN 0 ELSE LENGTH(Head(members)) + tuple_LENGTH(Tail(members))

LENGTH(t) ==
    CASE t.kind = "scalar" -> 1
      [] t.kind = "array" -> t.n
      [] t.kind = "tuple" -> tuple_LENGTH(t.members)
      [] t.kind = "ref" -> LENGTH(t.members[1])

\* array headers numbered from 1.
array_headers_from_one(n) == [i \in 1..n |-> Decimal(i)]

array_headers(n) == [i \in 1..n |-> Decimal(i - 1)]

\* The members' headers, each appended to the list so far, first to last.
tuple_headers(list, members) ==
    IF Len(members) = 0 THEN list
    ELSE tuple_headers(list \o headers(Head(members)), Tail(members))

headers(t) ==
    CASE t.kind = "scalar" -> <<t.name>>
      [] t.kind = "array" -> array_headers(t.n)
      [] t.kind = "tuple" -> tuple_headers(<<>>, t.members)
      [] t.kind = "ref" -> headers(t.members[1])

\* tuple fields that put each member's fields before the list so far.
RECURSIVE tuple_fields_prepended(_, _)
tuple_fields_prepended(list, items) ==
    IF Len(items) = 0 THEN list
    ELSE tuple_fields_prepended(fields(Head(items)) \o list, Tail(items))

\* The members' fields, each appended to the list so far, first to last.
tuple_fields(list, items) ==
    IF Len(items) = 0 THEN list
    ELSE tuple_fields(list \o fields(Head(items)), Tail(items))

fields(v) ==
    CASE v.kind = "scalar" -> <<Display(v)>>
      [] v.kind = "array" -> [i \in 1..Len(v.items) |-> Display(v.items[i])]
      [] v.kind = "tuple" -> tuple_fields(<<>>, v.items)
      [] v.kind = "ref" -> fields(v.items[1])

\* The values converted: scalars of every type, arrays of up to MaxN elements,
\* tuples of 1 to TupleArity members, and references.
Scalars ==
    {Text("&str", "World"), Text("String", "World"), Text("String", ""), Text("char", "c"),
     Bool(TRUE), Bool(FALSE),
     Integer("isize", 0 - 5), Integer("usize", 10), Integer("u8", 21), Integer("u8", 0), Integer("u16", 300),
     Integer("u32", 1000), Integer("u64", 7), Integer("u128", 99), Integer("i8", 0 - 128), Integer("i16", 12),
     Integer("i32", 0 - 1), Integer("i64", 0), Integer("i128", 100),
     Float("f32", 1, 5), Float("f64", 2, 0)}
Arrays ==
    {Array("u8", items) : items \in SeqsUpTo({Integer("u8", 7), Integer("u8", 21)}, MaxN)}
        \cup {Array("bool", items) : items \in SeqsUpTo({Bool(TRUE), Bool(FALSE)}, MaxN)}
Members ==
    {Text("String", "World"), Integer("u8", 21), Bool(TRUE),
     Array("u8", <<Integer("u8", 7), Integer("u8", 21)>>), Tuple(<<Integer("u8", 5), Ref(Bool(FALSE))>>)}
Tuples == {Tuple(items) : items \in SeqsUpTo(Members, TupleArity) \ {<<>>}}
Refs ==
    LET to == Scalars \cup Arrays \cup {t \in Tuples : Len(t.items) <= 2}
    IN  {Ref(v) : v \in to} \cup {Ref(Ref(v)) : v \in Scalars}
Values == Scalars \cup Arrays \cup Tuples \cup Refs

\* ------------------------------------------------------------- the state
VARIABLES
    builder,    \* the Builder
    pre,        \* the Builder as the last operation found it
    op,         \* the last operation and its arguments
    status,     \* "live", "panicked" (a call panicked) or "exported" (consumed)
    ret,        \* what the last operation returned, besides the builder
    grid,       \* the exported grid
    widest,     \* history: the widest row or header supplied so far
    round_trip, \* history: the last two operations were insert_record(i, r)
                \* and then remove_record(i), and neither panicked
    tabled      \* a value under conversion, and the headers and fields
                \* obtained from it so far

vars == <<builder, pre, op, status, ret, grid, widest, round_trip, tabled>>
builder_vars == <<builder, pre, op, status, ret, grid, widest, round_trip>>

Call(name, index, cells) == [name |-> name, index |-> index, cells |-> cells]

\* A new builder.
NewBuilder ==
    /\ builder = Default
    /\ pre = Default
    /\ op = Call("new", 0, <<>>)
    /\ status = "live"
    /\ ret = "none"
    /\ grid = <<>>
    /\ widest = 0
    /\ round_trip = FALSE

Init ==
    /\ NewBuilder
    /\ tabled = [value |-> None, headers |-> None, fields |-> None]

\* The widest row or header supplied up to and including this call.
Widest(call) ==
    IF call.name \in {"set_header", "push_record", "insert_record"}
    THEN Max(widest, Len(call.cells))
    ELSE widest

\* An operation that cannot panic.
Does(call, b) ==
    /\ status = "live"
    /\ pre' = builder
    /\ op' = call
    /\ builder' = b
    /\ status' = "live"
    /\ ret' = "none"
    /\ grid' = <<>>
    /\ widest' = Widest(call)
    /\ round_trip' = FALSE
    /\ UNCHANGED tabled

\* An operation that may panic, and returns value when it does not.
Tries(call, outcome, value) ==
    /\ status = "live"
    /\ pre' = builder
    /\ op' = call
    /\ builder' = outcome.b
    /\ status' = IF outcome.panic THEN "panicked" ELSE "live"
    /\ ret' = IF outcome.panic THEN "none" ELSE value
    /\ grid' = <<>>
    /\ widest' = Widest(call)
    /\ round_trip' = /\ call.name = "remove_record"
                     /\ op.name = "insert_record"
                     /\ call.index = op.index
                     /\ ~outcome.panic
    /\ UNCHANGED tabled

\* The widest of count_columns, the header and the rows: what the bound MaxCols caps.
Width(b) == Max(b.count_columns, get_size(b))

SetHeader ==
    \E columns \in Records :
        Does(Call("set_header", 0, columns), set_header(builder, columns))

RemoveHeader ==
    Does(Call("remove_header", 0, <<>>), remove_header(builder))

SetDefaultText ==
    \E text \in FillText :
        Does(Call("set_default_text", 0, <<text>>), set_default_text(builder, text))

PushRecord ==
    /\ Len(builder.data) < MaxRows
    /\ \E row \in Records :
        Does(Call("push_record", 0, row), push_record(builder, row))

\* index runs one past count_records(), the first index out of range.
InsertRecord ==
    /\ Len(builder.data) < MaxRows
    /\ \E index \in 0..(Len(builder.data) + 1), record \in Records :
        Tries(Call("insert_record", index, record),
              insert_record(builder, index, record), "true")

\* index runs up to count_records(), the first index out of range.
RemoveRecord ==
    \E index \in 0..Len(builder.data) :
        Tries(Call("remove_record", index, <<>>), remove_record(builder, index), "none")

\* index < count_columns, as the documentation asks.
RemoveColumn ==
    \E index \in 0..(builder.count_columns - 1) :
        Tries(Call("remove_column", index, <<>>), remove_column(builder, index), "none")

PushColumn ==
    /\ Width(builder) < MaxCols
    /\ \E column \in Columns :
        Does(Call("push_column", 0, column), push_column(builder, column))

\* index <= count_columns, as the documentation asks.
InsertColumn ==
    /\ Width(builder) < MaxCols
    /\ \E index \in 0..builder.count_columns, column \in Columns :
        Tries(Call("insert_column", index, column),
              insert_column(builder, column, index), "none")

Clean ==
    Tries(Call("clean", 0, <<>>), clean(builder), "none")

Clear ==
    Does(Call("clear", 0, <<>>), clear(builder))

HintColumnSize ==
    \E size \in 0..MaxCols :
        Does(Call("hint_column_size", size, <<>>), hint_column_size(builder, size))

\* The builder is consumed: nothing follows.
Export ==
    /\ status = "live"
    /\ pre' = builder
    /\ op' = Call("export", 0, <<>>)
    /\ builder' = builder
    /\ status' = "exported"
    /\ ret' = "none"
    /\ grid' = into_grid(builder)
    /\ widest' = widest
    /\ round_trip' = FALSE
    /\ UNCHANGED tabled

\* Every public operation but hint_column_size.
Next ==
    \/ SetHeader
    \/ RemoveHeader
    \/ SetDefaultText
    \/ PushRecord
    \/ InsertRecord
    \/ RemoveRecord
    \/ RemoveColumn
    \/ PushColumn
    \/ InsertColumn
    \/ Clean
    \/ Clear
    \/ Export

Spec == Init /\ [][Next]_vars

\* Every public operation.
NextHint == Next \/ HintColumnSize

SpecHint == Init /\ [][NextHint]_vars

\* A new builder that is only given rows, headers and a fill text, and exported.
NextPush ==
    \/ SetHeader
    \/ PushRecord
    \/ SetDefaultText
    \/ Export

SpecPush == Init /\ [][NextPush]_vars

\* A builder made from a list of rows by From<Vec<Vec<String>>>.
InitFrom ==
    /\ \E data \in RowLists :
           /\ builder = from_vec(data)
           /\ pre = from_vec(data)
    /\ op = Call("from", 0, <<>>)
    /\ status = "live"
    /\ ret = "none"
    /\ grid = <<>>
    /\ widest = 0
    /\ round_trip = FALSE
    /\ tabled = [value |-> None, headers |-> None, fields |-> None]

\* Such a builder, given a fill text or not, and exported.
NextFrom ==
    \/ SetDefaultText
    \/ Export

SpecFrom == InitFrom /\ [][NextFrom]_vars

\* A value of a convertible type, not yet converted.
InitTabled ==
    /\ NewBuilder
    /\ \E v \in Values : tabled = [value |-> Some(v), headers |-> None, fields |-> None]

\* T::headers() for the type T of the value.
CallHeaders ==
    /\ is_some(tabled.value)
    /\ ~is_some(tabled.headers)
    /\ tabled' = [tabled EXCEPT !.headers = Some(headers(TypeOf(unwrap(tabled.value))))]
    /\ UNCHANGED builder_vars

\* value.fields()
CallFields ==
    /\ is_some(tabled.value)
    /\ ~is_some(tabled.fields)
    /\ tabled' = [tabled EXCEPT !.fields = Some(fields(unwrap(tabled.value)))]
    /\ UNCHANGED builder_vars

NextTabled ==
    \/ CallHeaders
    \/ CallFields

SpecTabled == InitTabled /\ [][NextTabled]_vars

\* ------------------------------------------------------------- the claims
has_header(b) == is_some(b.columns)
count_records(b) == Len(b.data)

\* The header (if present) and every row have exactly count_columns cells.
Rect(b) ==
    /\ has_header(b) => Len(unwrap(b.columns)) = b.count_columns
    /\ \A i \in 1..Len(b.data) : Len(b.data[i]) = b.count_columns

\* The fill text in effect.
Fill(b) == IF is_some(b.empty_cell_text) THEN unwrap(b.empty_cell_text) ELSE ""

\* row, extended at its end with fill up to n cells.
Padded(row, n, fill) ==
    [i \in 1..Max(Len(row), n) |-> IF i <= Len(row) THEN row[i] ELSE fill]

\* The elements of s at the positions in K, in their order in s.
RECURSIVE PickFrom(_, _, _)
PickFrom(s, K, i) ==
    IF i > Len(s) THEN <<>>
    ELSE (IF i \in K THEN <<s[i]>> ELSE <<>>) \o PickFrom(s, K, i + 1)
Pick(s, K) == PickFrom(s, K, 1)

\* C1: once no hint_column_size is called, the exported grid is the header (if
\* present) as row 0, then the count_records() data rows in order, and every
\* row of it has exactly count_columns() cells.
C1_ExportIsRectangular ==
    status = "exported" =>
        LET off == IF has_header(builder) THEN 1 ELSE 0
        IN  /\ Len(grid) = count_records(builder) + off
            /\ has_header(builder) =>
                   SubSeq(grid[1], 1, Len(unwrap(builder.columns))) = unwrap(builder.columns)
            /\ \A i \in 1..count_records(builder) :
                   SubSeq(grid[i + off], 1, Len(builder.data[i])) = builder.data[i]
            /\ \A r \in 1..Len(grid) : Len(grid[r]) = builder.count_columns

\* C2: after push_record and set_header calls only, each call stores its cells
\* as given, and every row of the exported grid, the header row included, is
\* the stored row extended at its end with the fill text to the widest width
\* ever pushed or set.
C2_PushedRowsPaddedToWidest ==
    /\ op.name = "push_record" =>
           /\ builder.data = Append(pre.data, op.cells)
           /\ builder.columns = pre.columns
    /\ op.name = "set_header" =>
           /\ builder.columns = Some(op.cells)
           /\ builder.data = pre.data
    /\ status = "exported" =>
           LET off == IF has_header(builder) THEN 1 ELSE 0
           IN  /\ Len(grid) = count_records(builder) + off
               /\ has_header(builder) =>
                      grid[1] = Padded(unwrap(builder.columns), widest, Fill(builder))
               /\ \A i \in 1..count_records(builder) :
                      grid[i + off] = Padded(builder.data[i], widest, Fill(builder))
               /\ \A r \in 1..Len(grid) : Len(grid[r]) = widest

\* C2's case: a header and two rows of three different widths, one row
\* narrower than the header that was replaced, exported with a fill text.
C2_Witness ==
    /\ status = "exported"
    /\ widest = 2
    /\ has_header(builder)
    /\ Len(unwrap(builder.columns)) = 1
    /\ count_records(builder) = 2
    /\ Len(builder.data[1]) = 0
    /\ Len(builder.data[2]) = 1
    /\ builder.empty_cell_text = Some("x")

\* The columns of b that hold a non-empty cell in at least one data row.
KeptColumns(b) ==
    {c \in 1..b.count_columns : \E r \in 1..Len(b.data) : b.data[r][c] # ""}
\* The data rows of b that hold at least one non-empty cell.
KeptRows(b) ==
    {r \in 1..Len(b.data) : \E c \in 1..b.count_columns : b.data[r][c] # ""}

\* C3: on a rectangular builder clean() completes and keeps exactly the columns
\* with a non-empty cell in some data row and the data rows with a non-empty
\* cell, in order; the header loses the same columns; count_columns is the
\* number of columns kept; the flag and the fill text stay.
C3_CleanKeepsNonEmpty ==
    (op.name = "clean" /\ Rect(pre)) =>
        /\ status = "live"
        /\ builder.data =
               [i \in 1..Cardinality(KeptRows(pre)) |->
                   Pick(Pick(pre.data, KeptRows(pre))[i], KeptColumns(pre))]
        /\ builder.columns =
               IF has_header(pre)
               THEN Some(Pick(unwrap(pre.columns), KeptColumns(pre)))
               ELSE None
        /\ builder.count_columns = Cardinality(KeptColumns(pre))
        /\ builder.is_consistent = pre.is_consistent
        /\ builder.empty_cell_text = pre.empty_cell_text

\* C3's case: a rectangular builder with a header, two columns and two rows,
\* of which clean() removed one column and one row.
C3_Witness ==
    /\ op.name = "clean"
    /\ status = "live"
    /\ Rect(pre)
    /\ has_header(pre)
    /\ pre.count_columns = 2
    /\ count_records(pre) = 2
    /\ builder.count_columns = 1
    /\ count_records(builder) = 1

\* The header row (if present) and the data rows of b.
GridRows(b) == IF has_header(b) THEN <<unwrap(b.columns)>> \o b.data ELSE b.data

\* No row and no column of the grid of b consists of empty strings only.
NoEmptyLine(b) ==
    LET g == GridRows(b)
    IN  /\ \A r \in 1..Len(g) : \E c \in 1..Len(g[r]) : g[r][c] # ""
        /\ \A c \in 1..b.count_columns :
               \E r \in 1..Len(g) : c <= Len(g[r]) /\ g[r][c] # ""

\* C4: clean() completes and changes nothing on a builder whose grid, the
\* header row included, has no row and no column of empty strings only.
C4_CleanNoOpWithoutEmptyLines ==
    (op.name = "clean" /\ NoEmptyLine(pre)) =>
        /\ status = "live"
        /\ builder = pre

\* C5: when clean() has completed, a second clean() completes and changes
\* nothing, so the grid exported after two calls is the grid after one.
C5_CleanIdempotent ==
    (op.name = "clean" /\ status = "live") =>
        /\ clean(builder) = Ok(builder)
        /\ into_grid(clean(builder).b) = into_grid(builder)

\* C5's case: a clean() that removed a column and a row, and completed.
C5_Witness ==
    /\ op.name = "clean"
    /\ status = "live"
    /\ builder.count_columns < pre.count_columns
    /\ count_records(builder) < count_records(pre)
    /\ count_records(builder) > 0

\* C6 as stated: insert_record validates its index; past count_records() it
\* returns a failure without panicking and inserts nothing, otherwise it
\* inserts the row at index and returns success.
C6_InsertRecordValidates ==
    op.name = "insert_record" =>
        IF op.index > count_records(pre)
        THEN /\ status = "live"
             /\ ret = "false"
             /\ builder.data = pre.data
        ELSE /\ status = "live"
             /\ ret = "true"
             /\ count_records(builder) = count_records(pre) + 1
             /\ builder.data[op.index + 1] = op.cells

\* C6 amended: insert_record does not validate its index; past
\* count_records() the call panics and no row is inserted, otherwise the row
\* is inserted at index, the rows from index on move down one place, and the
\* call returns true.
C6_InsertRecordPanicsOutOfRange ==
    op.name = "insert_record" =>
        IF op.index > count_records(pre)
        THEN /\ status = "panicked"
             /\ builder.data = pre.data
             /\ builder.columns = pre.columns
        ELSE /\ status = "live"
             /\ ret = "true"
             /\ count_records(builder) = count_records(pre) + 1
             /\ builder.data[op.index + 1] = op.cells
             /\ \A i \in 1..count_records(pre) :
                    builder.data[IF i <= op.index THEN i ELSE i + 1] = pre.data[i]
             /\ builder.columns = pre.columns

\* C6's case: insert_record called one past count_records() on a builder
\* that holds a row.
C6_Witness ==
    /\ op.name = "insert_record"
    /\ count_records(pre) = 1
    /\ op.index = 2
    /\ status = "panicked"

\* C7: remove_header() leaves no header and count_columns at the larger of
\* the longest stored row and the removed header's length, never below a
\* stored row's length; without a header it changes nothing.
C7_RemoveHeaderKeepsWidth ==
    op.name = "remove_header" =>
        /\ ~has_header(builder)
        /\ builder.count_columns =
               Max(MaxLen(pre.data),
                   IF has_header(pre) THEN Len(unwrap(pre.columns)) ELSE 0)
        /\ \A i \in 1..count_records(builder) :
               Len(builder.data[i]) <= builder.count_columns
        /\ ~has_header(pre) => builder = pre

\* C8: insert_record(i, r) immediately followed by remove_record(i) leaves
\* the data rows and the header as they were before the insertion.
C8_InsertThenRemoveRestores ==
    [][(/\ op.name = "insert_record"
        /\ status = "live"
        /\ op'.name = "remove_record"
        /\ op'.index = op.index)
       => (/\ status' = "live"
           /\ builder'.data = pre.data
           /\ builder'.columns = pre.columns)]_vars

\* C8's case: a row inserted before the row of a builder with a header, and
\* removed again.
C8_Witness ==
    /\ round_trip
    /\ op.name = "remove_record"
    /\ op.index = 0
    /\ status = "live"
    /\ count_records(builder) = 1
    /\ has_header(builder)

\* What push_column(cells) leaves, when before it the header and the rows are
\* extended to count_columns with the fill text (normalize) or taken as they
\* are stored: one more cell at the end of the header and of every row.
PushColumnAppends(normalize) ==
    LET base(row) == IF normalize
                     THEN Padded(row, pre.count_columns, Fill(pre))
                     ELSE row
        values == IF has_header(pre) /\ Len(op.cells) > 0 THEN Tail(op.cells) ELSE op.cells
    IN  /\ status = "live"
        /\ builder.columns =
               IF has_header(pre)
               THEN Some(Append(base(unwrap(pre.columns)),
                                IF Len(op.cells) > 0 THEN op.cells[1] ELSE ""))
               ELSE None
        /\ count_records(builder) = count_records(pre)
        /\ \A i \in 1..count_records(pre) :
               builder.data[i] =
                   Append(base(pre.data[i]), IF i <= Len(values) THEN values[i] ELSE "")
        /\ builder.count_columns = pre.count_columns + 1

\* C9 as stated: push_column appends exactly one cell to the header and to
\* every data row as they are stored.
C9_PushColumnAppendsOneCell ==
    op.name = "push_column" => PushColumnAppends(FALSE)

\* C9 amended: when the consistency flag is false, push_column first extends
\* the header and every row shorter than count_columns to count_columns with
\* the fill text; then, in either case, it appends exactly one cell to the
\* header and to every row (the first value to the header if there is one,
\* the next values to the rows top to bottom, the empty string where no value
\* is left), drops the values left over and adds 1 to count_columns.
C9_PushColumnPadsThenAppends ==
    op.name = "push_column" => PushColumnAppends(~pre.is_consistent)

\* C9's case: a column of two values pushed onto a header and two rows, the
\* second row shorter than count_columns, with a fill text set: the second
\* row is padded with the fill text and gets the empty string.
C9_Witness ==
    /\ op.name = "push_column"
    /\ has_header(pre)
    /\ count_records(pre) = 2
    /\ pre.count_columns = 1
    /\ Len(pre.data[2]) = 0
    /\ ~pre.is_consistent
    /\ pre.empty_cell_text = Some("x")
    /\ Len(op.cells) = 2
    /\ builder.data[2] = <<"x", "">>

\* C10: hint_column_size(size) with size below count_columns changes nothing.
C10_HintLowerIsNop ==
    (op.name = "hint_column_size" /\ op.index < pre.count_columns) => builder = pre

\* C11: set_header, push_record and insert_record with k cells, on a builder
\* whose count_columns is c, leave count_columns at max(c, k): it never
\* decreases (insert_record also when it then panics on its index).
C11_WriteGrowsToMax ==
    op.name \in {"set_header", "push_record", "insert_record"} =>
        /\ builder.count_columns = Max(pre.count_columns, Len(op.cells))
        /\ builder.count_columns >= pre.count_columns

\* C11's case: a row of 1 cell pushed after a row of 2 cells; count_columns
\* stays 2.
C11_Witness ==
    /\ op.name = "push_record"
    /\ status = "live"
    /\ count_records(pre) = 1
    /\ Len(pre.data[1]) = 2
    /\ pre.count_columns = 2
    /\ Len(op.cells) = 1
    /\ builder.count_columns = 2

\* The value converted, its type, and the lists obtained from them.
Converted == is_some(tabled.headers) /\ is_some(tabled.fields)
TheValue == unwrap(tabled.value)
TheHeaders == unwrap(tabled.headers)
TheFields == unwrap(tabled.fields)

\* The sum of the LENGTH constants of the types of the first k of items.
RECURSIVE LengthBefore(_, _)
LengthBefore(items, k) ==
    IF k = 0 THEN 0
    ELSE LengthBefore(items, k - 1) + LENGTH(TypeOf(items[k]))

\* C12: for a scalar, an array, a tuple of 1 to 6 members and a reference,
\* headers() and fields() have the same length, the type's LENGTH: 1 for a
\* scalar, N for an array of N elements, whose headers are "0".."N-1" in
\* order, the sum of the members' LENGTH for a tuple, the referent's LENGTH
\* for a reference.
C12_HeadersAndFieldsHaveLENGTH ==
    Converted =>
        LET v == TheValue
            t == TypeOf(v)
        IN  /\ Len(TheHeaders) = Len(TheFields)
            /\ Len(TheHeaders) = LENGTH(t)
            /\ v.kind = "scalar" => LENGTH(t) = 1
            /\ v.kind = "array" =>
                   /\ LENGTH(t) = Len(v.items)
                   /\ TheHeaders = SubSeq(<<"0", "1", "2", "3", "4">>, 1, Len(v.items))
            /\ v.kind = "tuple" => LENGTH(t) = LengthBefore(v.items, Len(v.items))
            /\ v.kind = "ref" => LENGTH(t) = LENGTH(TypeOf(v.items[1]))

\* C12's case: an array of two elements converted; its headers are "0", "1".
C12_Witness ==
    /\ Converted
    /\ TheValue.kind = "array"
    /\ Len(TheValue.items) = 2
    /\ TheHeaders = <<"0", "1">>
    /\ Len(TheFields) = 2

\* C13: a tuple's headers() and fields() are its members' header lists and
\* field lists, one after the other in member order, so that the i-th header
\* and the i-th field come from the same member: ("World", 21u8, true) gives
\* headers "String", "u8", "bool" and fields "World", "21", "true".  A
\* reference gives the headers and fields of the value it refers to.
C13_TupleConcatenatesInOrder ==
    Converted =>
        LET v == TheValue
        IN  /\ v.kind = "tuple" =>
                   /\ Len(v.items) \in 1..TupleArity
                   /\ Len(TheHeaders) = LengthBefore(v.items, Len(v.items))
                   /\ Len(TheFields) = LengthBefore(v.items, Len(v.items))
                   /\ \A k \in 1..Len(v.items) :
                          LET from == LengthBefore(v.items, k - 1) + 1
                              to == LengthBefore(v.items, k)
                          IN  /\ SubSeq(TheHeaders, from, to) = headers(TypeOf(v.items[k]))
                              /\ SubSeq(TheFields, from, to) = fields(v.items[k])
            /\ v = Tuple(<<Text("String", "World"), Integer("u8", 21), Bool(TRUE)>>) =>
                   /\ TheHeaders = <<"String", "u8", "bool">>
                   /\ TheFields = <<"World", "21", "true">>
            /\ v.kind = "ref" =>
                   /\ TheHeaders = headers(TypeOf(v.items[1]))
                   /\ TheFields = fields(v.items[1])

\* C13's case: ("World", 21u8, true) converted.
C13_Witness ==
    /\ Converted
    /\ TheValue = Tuple(<<Text("String", "World"), Integer("u8", 21), Bool(TRUE)>>)
    /\ TheFields = <<"World", "21", "true">>

\* line holds the cells of stored in their places, and the fill text after them.
PaddedWith(line, stored, fill) ==
    /\ Len(line) >= Len(stored)
    /\ \A c \in 1..Len(line) :
           line[c] = IF c <= Len(stored) THEN stored[c] ELSE fill

\* C14: set_default_text changes no stored cell, nor count_columns, nor the
\* number of rows.  Every cell that the export, push_column or insert_column
\* adds when it extends a short row or header is the fill text in effect at
\* that call, the empty string if none was ever set; the cells stored before
\* stay as they are.
C14_FillTextOnlyInLaterPadding ==
    /\ op.name = "set_default_text" =>
           /\ builder.data = pre.data
           /\ builder.columns = pre.columns
           /\ builder.count_columns = pre.count_columns
           /\ builder.empty_cell_text = Some(op.cells[1])
    /\ status = "exported" =>
           /\ Len(grid) = Len(GridRows(builder))
           /\ \A r \in 1..Len(grid) :
                  PaddedWith(grid[r], GridRows(builder)[r], Fill(builder))
    /\ (op.name \in {"push_column", "insert_column"} /\ status = "live") =>
           LET at(line) == IF op.name = "push_column" THEN Len(line) ELSE op.index + 1
               rest(line) == Pick(line, (1..Len(line)) \ {at(line)})
           IN  /\ Len(GridRows(builder)) = Len(GridRows(pre))
               /\ \A r \in 1..Len(GridRows(pre)) :
                      PaddedWith(rest(GridRows(builder)[r]), GridRows(pre)[r], Fill(pre))

\* C14's case: a row of two cells stored, then the fill text set, then an
\* empty row pushed: the export leaves the first row as it is and fills the
\* second with the fill text.
C14_Witness ==
    /\ status = "exported"
    /\ builder.empty_cell_text = Some("x")
    /\ builder.data = << <<"a", "">>, <<>> >>
    /\ grid = << <<"a", "">>, <<"x", "x">> >>

\* C15: in every state reached without hint_column_size, when the consistency
\* flag is true the header (if present) and every row have exactly
\* count_columns cells; so after clear() and then a push_record, insert_record
\* or set_header narrower than the header that clear() kept.
C15_ConsistentFlagMeansRectangular ==
    (status # "panicked" /\ builder.is_consistent) => Rect(builder)

\* C16: in every state reached without hint_column_size, by operations that
\* return, no stored row and no header has more than count_columns cells.
C16_NoLineWiderThanCountColumns ==
    status # "panicked" =>
        \A r \in 1..Len(GridRows(builder)) :
            Len(GridRows(builder)[r]) <= builder.count_columns

\* C16's case: remove_header() has dropped a header wider than the rows, and
\* count_columns has come down to the widest row.
C16_Witness ==
    /\ op.name = "remove_header"
    /\ has_header(pre)
    /\ Len(unwrap(pre.columns)) = 2
    /\ count_records(builder) = 2
    /\ MaxLen(builder.data) = 1
    /\ builder.count_columns = 1

\* The builder as push_column and insert_column take it: padded to
\* count_columns when the consistency flag is false.
Normalized(b) == IF ~b.is_consistent THEN fit_rows_length(b) ELSE b

\* C17: remove_column(index) with index < count_columns and clean() pad the
\* short rows and header before they index into them, as push_column and
\* insert_column do: on a builder with the flag false they return, and leave
\* what they leave on the padded builder.
C17_ColumnOpsPadFirst ==
    (op.name \in {"remove_column", "clean"} /\ ~pre.is_consistent) =>
        LET padded == IF op.name = "clean"
                      THEN clean(Normalized(pre))
                      ELSE remove_column(Normalized(pre), op.index)
        IN  /\ status = "live"
            /\ builder.data = padded.b.data
            /\ builder.columns = padded.b.columns
            /\ builder.count_columns = padded.b.count_columns

\* C18: a new builder (Builder::new(), Builder::default(), with_capacity)
\* has no rows, no header, count_columns 0 and the consistency flag true.
C18_NewBuilderIsConsistent ==
    op.name = "new" =>
        /\ count_records(builder) = 0
        /\ ~has_header(builder)
        /\ builder.count_columns = 0
        /\ builder.is_consistent

\* line without its cell at the 0-based index.
Without(line, index) == Pick(line, (1..Len(line)) \ {index + 1})

\* C19: remove_column(index), index < count_columns, on a builder whose header
\* and rows all have count_columns cells, takes the cell at index out of the
\* header and of every row, keeps the other cells in order, lowers
\* count_columns by 1 and keeps the number of rows.  remove_record(index),
\* index < count_records(), takes out that row only: count_columns, the header
\* and the other rows stay, also when the row removed was the widest.
C19_RemoveColumnAndRecord ==
    /\ (op.name = "remove_column" /\ Rect(pre)) =>
           /\ status = "live"
           /\ builder.columns =
                  IF has_header(pre) THEN Some(Without(unwrap(pre.columns), op.index)) ELSE None
           /\ count_records(builder) = count_records(pre)
           /\ \A i \in 1..count_records(pre) :
                  builder.data[i] = Without(pre.data[i], op.index)
           /\ builder.count_columns = pre.count_columns - 1
    /\ (op.name = "remove_record" /\ op.index < count_records(pre)) =>
           /\ status = "live"
           /\ builder.data = Without(pre.data, op.index)
           /\ builder.columns = pre.columns
           /\ builder.count_columns = pre.count_columns

\* C19's case: column 0 removed from a header and two rows of two cells each.
C19_Witness ==
    /\ op.name = "remove_column"
    /\ op.index = 0
    /\ Rect(pre)
    /\ has_header(pre)
    /\ count_records(pre) = 2
    /\ pre.count_columns = 2
    /\ unwrap(pre.columns) = <<"a", "">>
    /\ builder.columns = Some(<<"">>)
    /\ builder.count_columns = 1

\* The cell that push_column and insert_column give to line r of the header
\* (if present) and the rows: the values in order, then the empty string.
NewCell(r) == IF r <= Len(op.cells) THEN op.cells[r] ELSE ""

\* C20: in every state reached, insert_column(cells, count_columns()) leaves
\* the header, rows, count_columns and consistency flag that push_column(cells)
\* leaves; and insert_column(cells, index), index <= count_columns, puts the
\* new cell at position index of the header and of every row, the cells that
\* were at index and after it one place to the right.
C20_InsertColumnIsPushColumnAt ==
    op.name = "insert_column" =>
        /\ status = "live"
        /\ op.index = pre.count_columns => builder = push_column(pre, op.cells)
        /\ Len(GridRows(builder)) = Len(GridRows(pre))
        /\ \A r \in 1..Len(GridRows(builder)) :
               LET line == GridRows(builder)[r]
                   was == GridRows(Normalized(pre))[r]
               IN  /\ Len(line) = Len(was) + 1
                   /\ line[op.index + 1] = NewCell(r)
                   /\ \A c \in 1..Len(was) :
                          line[IF c <= op.index THEN c ELSE c + 1] = was[c]

\* C21: a builder made from a list of rows of varying widths by From exports
\* a rectangular grid: every exported row has count_columns() cells, and
\* count_columns() is the width of the widest row given; it is the grid, and
\* the count_columns(), of a new builder into which the rows were pushed one
\* by one with push_record.
C21_FromRowsExportsAsPushed ==
    status = "exported" =>
        LET pushed == [from_iter(builder.data) EXCEPT
                          !.empty_cell_text = builder.empty_cell_text]
        IN  /\ \A r \in 1..Len(grid) : Len(grid[r]) = builder.count_columns
            /\ builder.count_columns = MaxLen(builder.data)
            /\ builder.count_columns = pushed.count_columns
            /\ grid = into_grid(pushed)

====
